---- MODULE Spec2Model ----
(***************************************************************************)
(* DTVM EVM host bridge: the host primitives of rust_crate/src/evm and the *)
(* in-memory host of rust_crate/evm_example (MockContext, ContractExecutor *)
(* and the extern "C" wrappers of mock_evm_bridge.rs).                     *)
(*                                                                         *)
(* A frame is one instance created by new_instance_with_context: it owns a *)
(* linear memory and the identity fields of its MockContext clone.  The    *)
(* cells MockContext keeps behind Rc<RefCell<..>> (return_data,            *)
(* execution_status, events, storage, contract_registry) are module        *)
(* variables, because #[derive(Clone)] copies the Rc handle and not the    *)
(* cell.                                                                   *)
(***************************************************************************)
EXTENDS Integers, Sequences, FiniteSets, TLC

VARIABLES
    ctx,               \* the caller's MockContext (identity and input fields)
    frames,            \* stack of running instances, innermost last
    return_data,       \* MockContext.return_data cell
    execution_status,  \* MockContext.execution_status cell: Option<bool>
    events,            \* MockContext.events cell
    storage,           \* MockContext.storage cell: hex key -> Vec<u8>
    contract_registry, \* MockContext.contract_registry cell
    external_codes,    \* external code known to the host (Option per address)
    result,            \* ContractExecutionResult of the last top-level call
    invocations,       \* top-level invocations started so far
    ops,               \* host primitives the behaviour may still call
    writes,            \* history: the last storage_store per 32-byte key
    meter,             \* the gas counter and position of a metered wasm function
    last               \* record of the host primitive that completed last

vars == <<ctx, frames, return_data, execution_status, events, storage,
          contract_registry, external_codes, result, invocations, ops, writes,
          meter, last>>

----------------------------------------------------------------------------
(* Bounds of the model *)

MemSize == 60         \* bytes of linear memory per isolation
MaxDepth == 2         \* frames on the stack
MaxOps == 2           \* host primitives called in one behaviour of Spec
MaxBridgeOps == 1     \* host primitives called in one behaviour of SpecBridge
MaxInvocations == 2   \* top-level invocations on one context
MaxStateOps == 3      \* host primitives called in one behaviour of SpecState

(* Program constants *)

ADDR_LEN == 20
WORD_LEN == 32

----------------------------------------------------------------------------
(* Fixed-width values *)

AddrOf(id) == [i \in 1..ADDR_LEN |-> IF i = 1 THEN id ELSE 0]
WordOf(n) == [i \in 1..WORD_LEN |-> IF i = WORD_LEN THEN n ELSE 0]
ZeroAddr == [i \in 1..ADDR_LEN |-> 0]
ZeroWord == [i \in 1..WORD_LEN |-> 0]
Zeros(n) == [i \in 1..n |-> 0]

Min(a, b) == IF a < b THEN a ELSE b

(* `x as u32` for an i32 x.  TLC integers are 32-bit signed, so the wrap is  *)
(* kept at 2^31: a negative offset still becomes a value above every valid  *)
(* address and distinct offsets stay distinct.                              *)
AsU32(x) == IF x < 0 THEN (2147483647 + x) + 1 ELSE x

----------------------------------------------------------------------------
(* Engine interface consumed by the bridge *)

validate_wasm_addr(offset, length) ==
    /\ offset <= MemSize
    /\ length <= MemSize
    /\ offset + length <= MemSize

(* load_module_from_bytes accepts a byte sequence that starts with the WASM *)
(* magic number "\0asm".                                                    *)
WasmMagic == <<0, 97, 115, 109>>
load_module_ok(code) == Len(code) >= 4 /\ SubSeq(code, 1, 4) = WasmMagic

(* call_wasm_func: Ok after instance.exit(code) or a normal return of the   *)
(* entry point, Err after an exception or a trap.                           *)
call_wasm_func_ok(pc) == pc \in {"exit0", "exit1", "exit2", "exit3", "returned"}

----------------------------------------------------------------------------
(* Memory bridge: utils.rs *)

Ok(v) == [ok |-> TRUE, val |-> v]
(* error.rs out_of_bounds_error: the error of every range check *)
Err == [ok |-> FALSE, val |-> <<>>, kind |-> "OutOfBounds", param |-> ""]

(* error.rs invalid_parameter_error *)
invalid_parameter_error(param) ==
    [ok |-> FALSE, val |-> <<>>, kind |-> "InvalidParameter", param |-> param]

(* HostFunctionError::category for the two kinds the bridge produces here *)
category(kind) ==
    IF kind = "OutOfBounds" THEN "memory"
    ELSE IF kind = "InvalidParameter" THEN "parameter"
    ELSE "none"

validate_range(offset, length) == validate_wasm_addr(offset, length)

read_bytes(mem, offset, length) ==
    IF ~validate_range(offset, length) THEN Err
    ELSE Ok([i \in 1..length |-> mem[offset + i - 1]])

(* The bytes of data copied to mem at offset, where they fit *)
CopyInto(mem, offset, data) ==
    [a \in DOMAIN mem |->
        IF a >= offset /\ a < offset + Len(data)
        THEN data[a - offset + 1] ELSE mem[a]]

(* A faulty write_bytes: copies first and checks the range afterwards *)
write_bytes_unchecked(mem, offset, data) ==
    [ok |-> validate_range(offset, Len(data)), mem |-> CopyInto(mem, offset, data)]

(* write_bytes: the range is validated before copy_nonoverlapping runs.     *)
(* The result carries the memory the call leaves behind.                    *)
write_bytes(mem, offset, data) ==
    IF ~validate_range(offset, Len(data)) THEN [ok |-> FALSE, mem |-> mem]
    ELSE [ok |-> TRUE, mem |-> CopyInto(mem, offset, data)]

validate_offset_for_type(offset, type_size) ==
    IF offset < 0 THEN Err
    ELSE IF ~validate_range(AsU32(offset), type_size) THEN Err
    ELSE Ok(AsU32(offset))

validate_address_param(offset) == validate_offset_for_type(offset, ADDR_LEN)
validate_bytes32_param(offset) == validate_offset_for_type(offset, WORD_LEN)

validate_data_param(offset, length) ==
    IF offset < 0 THEN Err
    ELSE IF length < 0 THEN Err
    ELSE IF ~validate_range(AsU32(offset), AsU32(length)) THEN Err
    ELSE Ok(<<AsU32(offset), AsU32(length)>>)

----------------------------------------------------------------------------
(* Copy with zero fill: the buffer a copy primitive builds *)

(* call_data_copy / return_data_copy / external_code_copy: vec![0; len],    *)
(* then the available bytes of source[src..] copied to its front.           *)
CopiedBytes(source, src, len) ==
    Min(len, IF src < Len(source) THEN Len(source) - src ELSE 0)

(* A faulty buffer: only the copied bytes, no zero fill *)
CopiedOnlyBuffer(source, src, len) ==
    [i \in 1..CopiedBytes(source, src, len) |-> source[src + i]]

ZeroFillBuffer(source, src, len) ==
    [i \in 1..len |->
        IF i <= CopiedBytes(source, src, len) THEN source[src + i] ELSE 0]

----------------------------------------------------------------------------
(* Host primitives: rust_crate/src/evm/host_functions.  Each operator takes *)
(* the memory of the calling instance and returns                           *)
(*   [err: the HostFunctionResult is Err, mem: the memory left behind,      *)
(*    scalar: the value in Ok(..)].                                         *)

R(err, mem, scalar) == [err |-> err, mem |-> mem, scalar |-> scalar]

(* Shape of get_address, get_caller, get_tx_origin, get_block_coinbase:     *)
(* validate_address_param, then write_address.                              *)
write_address_result(mem, result_offset, address) ==
    LET v == validate_address_param(result_offset) IN
    IF ~v.ok THEN R(TRUE, mem, 0)
    ELSE LET w == write_bytes(mem, v.val, address) IN R(~w.ok, w.mem, 0)

(* Shape of get_call_value, get_chain_id, get_base_fee, get_tx_gas_price,   *)
(* get_block_prev_randao: validate_bytes32_param, then write_bytes32.       *)
write_bytes32_result(mem, result_offset, word) ==
    LET v == validate_bytes32_param(result_offset) IN
    IF ~v.ok THEN R(TRUE, mem, 0)
    ELSE LET w == write_bytes(mem, v.val, word) IN R(~w.ok, w.mem, 0)

call_data_copy(mem, call_data, result_offset, data_offset, length) ==
    LET v == validate_data_param(result_offset, length) IN
    IF ~v.ok THEN R(TRUE, mem, 0)
    ELSE IF data_offset < 0 THEN R(TRUE, mem, 0)
    ELSE LET buffer == ZeroFillBuffer(call_data, data_offset, v.val[2])
             w == write_bytes(mem, v.val[1], buffer)
         IN R(~w.ok, w.mem, 0)

return_data_copy(mem, data, result_offset, data_offset, length) ==
    LET v == validate_data_param(result_offset, length) IN
    IF ~v.ok THEN R(TRUE, mem, 0)
    ELSE IF data_offset < 0 THEN R(TRUE, mem, 0)
    ELSE LET buffer == ZeroFillBuffer(data, data_offset, v.val[2])
             w == write_bytes(mem, v.val[1], buffer)
         IN R(~w.ok, w.mem, 0)

(* code_copy builds the zero-filled buffer and then writes                  *)
(* &buffer[..copied_bytes] only.                                            *)
code_copy(mem, code, result_offset, code_offset, length) ==
    LET v == validate_data_param(result_offset, length) IN
    IF ~v.ok THEN R(TRUE, mem, 0)
    ELSE IF code_offset < 0 THEN R(TRUE, mem, 0)
    ELSE LET buffer == ZeroFillBuffer(code, code_offset, v.val[2])
             copied_bytes == CopiedBytes(code, code_offset, v.val[2])
             w == write_bytes(mem, v.val[1], SubSeq(buffer, 1, copied_bytes))
         IN R(~w.ok, w.mem, 0)

(* external: the Option the host returns for an address *)
Some(v) == [some |-> TRUE, val |-> v]
None == [some |-> FALSE, val |-> <<>>]
host_external_code_copy(codes, address) ==
    IF address \in DOMAIN codes THEN Some(codes[address]) ELSE None

external_code_copy(mem, codes, addr_offset, result_offset, code_offset, length) ==
    LET a == validate_address_param(addr_offset) IN
    IF ~a.ok THEN R(TRUE, mem, 0)
    ELSE LET v == validate_data_param(result_offset, length) IN
    IF ~v.ok THEN R(TRUE, mem, 0)
    ELSE IF code_offset < 0 THEN R(TRUE, mem, 0)
    ELSE LET address == read_bytes(mem, a.val, ADDR_LEN) IN
    IF ~address.ok THEN R(TRUE, mem, 0)
    ELSE LET external_code == host_external_code_copy(codes, address.val)
             buffer == IF external_code.some
                       THEN ZeroFillBuffer(external_code.val, code_offset, v.val[2])
                       ELSE Zeros(v.val[2])
             w == write_bytes(mem, v.val[1], buffer)
         IN R(~w.ok, w.mem, 0)

get_external_code_size(mem, codes, addr_offset) ==
    LET a == validate_address_param(addr_offset) IN
    IF ~a.ok THEN R(TRUE, mem, 0)
    ELSE LET address == read_bytes(mem, a.val, ADDR_LEN) IN
    IF ~address.ok THEN R(TRUE, mem, 0)
    ELSE LET c == host_external_code_copy(codes, address.val) IN
         R(FALSE, mem, IF c.some THEN Len(c.val) ELSE 0)

(* get_external_code_hash / get_external_balance: both offsets validated,   *)
(* the address read, one word written.                                      *)
address_to_word(mem, addr_offset, result_offset, word) ==
    LET a == validate_address_param(addr_offset) IN
    IF ~a.ok THEN R(TRUE, mem, 0)
    ELSE LET v == validate_bytes32_param(result_offset) IN
    IF ~v.ok THEN R(TRUE, mem, 0)
    ELSE LET address == read_bytes(mem, a.val, ADDR_LEN) IN
    IF ~address.ok THEN R(TRUE, mem, 0)
    ELSE LET w == write_bytes(mem, v.val, word) IN R(~w.ok, w.mem, 0)

(* get_block_hash: zero word and 0 for n < 0, n >= current block, or a     *)
(* block the host has no hash for.                                          *)
get_block_hash(mem, current_block, hash, block_num, result_offset) ==
    LET v == validate_bytes32_param(result_offset) IN
    IF ~v.ok THEN R(TRUE, mem, 0)
    ELSE IF block_num < 0 \/ block_num >= current_block \/ ~hash.some
    THEN LET w == write_bytes(mem, v.val, ZeroWord) IN R(~w.ok, w.mem, 0)
    ELSE LET w == write_bytes(mem, v.val, hash.val) IN R(~w.ok, w.mem, 1)

(* hex::encode with the "0x" prefix: the HashMap key of MockContext.storage *)
HexDigits == <<"0", "1", "2", "3", "4", "5", "6", "7",
               "8", "9", "a", "b", "c", "d", "e", "f">>
(* A faulty key: only the first 20 bytes of the word are encoded *)
HexKeyOfPrefix(key) ==
    <<"0", "x">> \o
    [i \in 1..(2 * ADDR_LEN) |->
        IF i % 2 = 1 THEN HexDigits[(key[(i + 1) \div 2] \div 16) + 1]
        ELSE HexDigits[(key[i \div 2] % 16) + 1]]

HexKey(key) ==
    <<"0", "x">> \o
    [i \in 1..(2 * Len(key)) |->
        IF i % 2 = 1 THEN HexDigits[(key[(i + 1) \div 2] \div 16) + 1]
        ELSE HexDigits[(key[i \div 2] % 16) + 1]]

(* MockContext::storage_store / storage_load *)
host_storage_store(st, key, value) ==
    [k \in DOMAIN st \cup {HexKey(key)} |->
        IF k = HexKey(key) THEN value ELSE st[k]]

host_storage_load(st, key) ==
    LET value == IF HexKey(key) \in DOMAIN st THEN st[HexKey(key)] ELSE Zeros(WORD_LEN)
        copy_len == Min(Len(value), WORD_LEN)
    IN [i \in 1..WORD_LEN |-> IF i <= copy_len THEN value[i] ELSE 0]

(* storage.rs: the offsets are cast with `as u32` and checked by read/write *)
storage_store_args(mem, key_bytes_offset, value_bytes_offset) ==
    LET key_bytes == read_bytes(mem, AsU32(key_bytes_offset), WORD_LEN) IN
    IF ~key_bytes.ok THEN Err
    ELSE LET value_bytes == read_bytes(mem, AsU32(value_bytes_offset), WORD_LEN) IN
    IF ~value_bytes.ok THEN Err
    ELSE Ok(<<key_bytes.val, value_bytes.val>>)

storage_load(mem, st, key_bytes_offset, result_offset) ==
    LET key_bytes == read_bytes(mem, AsU32(key_bytes_offset), WORD_LEN) IN
    IF ~key_bytes.ok THEN R(TRUE, mem, 0)
    ELSE LET value_bytes == host_storage_load(st, key_bytes.val)
             w == write_bytes(mem, AsU32(result_offset), value_bytes)
         IN R(~w.ok, w.mem, 0)

(* A faulty read: a range that is not valid yields no bytes, not an error *)
control_data_lenient(mem, data_offset, length) ==
    IF data_offset >= 0 /\ length >= 0
       /\ validate_range(AsU32(data_offset), AsU32(length))
    THEN read_bytes(mem, data_offset, length)
    ELSE Ok(<<>>)

(* control.rs finish / revert: the data range is validated and read *)
control_data(mem, data_offset, length) ==
    LET v == validate_data_param(data_offset, length) IN
    IF ~v.ok THEN Err ELSE read_bytes(mem, v.val[1], v.val[2])

(* log.rs emit_log_event: the LogEvent built from the arguments, or Err *)
RECURSIVE read_topics(_, _, _)
read_topics(mem, offsets, n) ==
    IF n = 0 THEN Ok(<<>>)
    ELSE LET before == read_topics(mem, offsets, n - 1) IN
         IF ~before.ok THEN Err
         ELSE IF offsets[n] # 0
         THEN LET v == validate_bytes32_param(offsets[n]) IN
              IF ~v.ok THEN Err
              ELSE Ok(Append(before.val, read_bytes(mem, v.val, WORD_LEN).val))
         ELSE Ok(Append(before.val, ZeroWord))

(* A faulty emit_log_event: the topic count is clamped, not checked *)
emit_log_event_clamped(mem, address, data_offset, length, num_topics, topic_offsets) ==
    LET data == control_data(mem, data_offset, length) IN
    IF ~data.ok THEN Err
    ELSE LET n == IF num_topics < 0 THEN 0 ELSE Min(num_topics, 4)
             topics == read_topics(mem, topic_offsets, n) IN
    IF ~topics.ok THEN Err
    ELSE Ok([contract_address |-> address, data |-> data.val, topics |-> topics.val])

emit_log_event_args(mem, address, data_offset, length, num_topics, topic_offsets) ==
    IF num_topics < 0 \/ num_topics > 4
    THEN invalid_parameter_error("num_topics")
    ELSE LET data == control_data(mem, data_offset, length) IN
    IF ~data.ok THEN Err
    ELSE LET topics == read_topics(mem, topic_offsets, num_topics) IN
    IF ~topics.ok THEN Err
    ELSE Ok([contract_address |-> address, data |-> data.val, topics |-> topics.val])

----------------------------------------------------------------------------
(* Frames *)

CallerAddress == AddrOf(10)
TargetAddress == AddrOf(20)
OwnerAddress == AddrOf(1)
ValueWord == WordOf(7)
CallerCode == WasmMagic \o <<10>>
CalleeCode == WasmMagic \o <<20>>
DataArea == <<101, 102, 103, 104>> \o WasmMagic

V_OFF == ADDR_LEN
D_OFF == ADDR_LEN + WORD_LEN

(* Linear memory of a new instance: a target address, a value word and a   *)
(* data area that also serves as creation code (4 bytes, then a module).    *)
Image ==
    [a \in 0..(MemSize - 1) |->
        IF a < V_OFF THEN TargetAddress[a + 1]
        ELSE IF a < D_OFF THEN ValueWord[a - V_OFF + 1]
        ELSE IF a - D_OFF < Len(DataArea) THEN DataArea[a - D_OFF + 1]
        ELSE 255]

(* The address the bytes at G_OFF read as; registered with a code that is   *)
(* not a WASM module.                                                       *)
G_OFF == MemSize - ADDR_LEN
BrokenAddress == [i \in 1..ADDR_LEN |-> Image[G_OFF + i - 1]]
BrokenCode == <<1, 2>>

NoPend ==
    [kind |-> "none", addr_offset |-> 0, value_offset |-> 0, data_offset |-> 0,
     data_length |-> 0, result_offset |-> 0, new_address |-> ZeroAddr,
     code |-> <<>>, storage |-> <<>>, contract_registry |-> <<>>]

(* call_context / deploy_context of execute_contract_call and               *)
(* execute_contract_deployment, with the instance created for it.           *)
NewFrame(address, caller, call_value, call_data, contract_code, via, entry) ==
    [address |-> address, caller |-> caller, call_value |-> call_value,
     call_data |-> call_data, contract_code |-> contract_code,
     mem |-> Image, pc |-> "running", via |-> via, entry |-> entry,
     out |-> <<>>, pend |-> NoPend]

Top == frames[Len(frames)]
SetTop(f) == [frames EXCEPT ![Len(frames)] = f]
Running == frames # <<>> /\ Top.pc = "running"

NoResult ==
    [state |-> "none", success |-> FALSE, return_data |-> <<>>,
     is_reverted |-> FALSE]

NoLast ==
    [op |-> "none", err |-> FALSE, exc |-> FALSE, scalar |-> 0,
     pre_mem |-> <<>>, res |-> 0, src |-> 0, len |-> 0, source |-> <<>>,
     success |-> FALSE, child |-> <<>>, variant |-> "none",
     key |-> <<>>, value |-> <<>>, args |-> <<>>,
     error |-> [kind |-> "none", param |-> ""]]

EmptyMap == [k \in {} |-> <<>>]

(* The wrappers of mock_evm_bridge.rs that do not call                      *)
(* set_exception_by_hostapi(9) on Err.                                      *)
NoExceptionWrappers ==
    {"call", "callcode", "delegatecall", "staticcall", "create",
     "get_external_code_size"}

WrapperRaises(op) == op \notin NoExceptionWrappers

(* The calling frame after a primitive that ran to completion *)
AfterPrimitive(op, r) ==
    [Top EXCEPT !.mem = r.mem,
                !.pc = IF r.err /\ WrapperRaises(op) THEN "exception9" ELSE @]

Done(op, r) ==
    [NoLast EXCEPT !.op = op, !.err = r.err,
                   !.exc = r.err /\ WrapperRaises(op),
                   !.scalar = r.scalar, !.pre_mem = Top.mem]

Copied(op, r, res, src, len, source) ==
    [Done(op, r) EXCEPT !.res = res, !.src = src, !.len = len,
                        !.source = source]

----------------------------------------------------------------------------
(* Initial states *)

TopContext ==
    [address |-> CallerAddress, caller |-> OwnerAddress,
     call_value |-> WordOf(3), call_data |-> <<>>,
     contract_code |-> CallerCode]

Registry0 ==
    [a \in {CallerAddress, TargetAddress, BrokenAddress} |->
        IF a = CallerAddress THEN CallerCode
        ELSE IF a = TargetAddress THEN CalleeCode
        ELSE BrokenCode]

-----------------------------------------------------------------------------
(* Gas metering (gas_metering/transform.rs, tests/gas_test.rs) *)

(* largest gas budget an invocation is started with *)
MaxGas == 26

(* engine error code of OutOfGas *)
OUT_OF_GAS == 90099

Ins(op, arg) == [op |-> op, arg |-> arg]

ConstantCostRules(instruction_cost, memory_grow_cost, call_per_local_cost) ==
    [kind |-> "constant", instruction_cost |-> instruction_cost,
     memory_grow_cost |-> memory_grow_cost,
     call_per_local_cost |-> call_per_local_cost]

FreeRules == ConstantCostRules(0, 8192, 1)

(* transform.rs transform_default *)
DefaultRules == ConstantCostRules(1, 8192, 1)

(* transform.rs test_transform_with_rules *)
TestRules == ConstantCostRules(5, 32768, 3)

MyRules_flat_cost(op) == 5

(* transform.rs test_transform_with_custom_rules, MyRules::instruction_cost *)
MyRules_instruction_cost(op) ==
    CASE op = "nop" -> 1
      [] op = "i32.add" -> 3
      [] op = "i32.const" -> 2
      [] op = "drop" -> 1
      [] op = "if" -> 10
      [] op = "loop" -> 15
      [] op = "call" -> 20
      [] op = "call_indirect" -> 25
      [] OTHER -> 5

MyRules ==
    [kind |-> "my", instruction_cost |-> 0, memory_grow_cost |-> 16384,
     call_per_local_cost |-> 2]

instruction_cost(rules, ins) ==
    IF rules.kind = "constant" THEN rules.instruction_cost
    ELSE MyRules_instruction_cost(ins.op)

(* the function bodies of the transform.rs tests *)
AddBody == <<Ins("local.get", 1), Ins("local.get", 2), Ins("i32.add", 0)>>

TestBody ==
    <<Ins("i32.const", 1), Ins("i32.const", 2), Ins("i32.add", 0),
      Ins("drop", 0)>>

CustomBody ==
    <<Ins("i32.const", 10), Ins("i32.const", 20), Ins("i32.add", 0),
      Ins("drop", 0), Ins("nop", 0)>>

(* a loop that does some work and branches back to its head for ever *)
LoopBody ==
    <<Ins("loop", 0), Ins("i32.const", 1), Ins("drop", 0), Ins("br", 0),
      Ins("end", 0)>>

Bodies == {AddBody, TestBody, CustomBody, LoopBody}

RuleSets == {DefaultRules, TestRules, MyRules}

(* the arguments of the call: add(5, 3) *)
AddArgs == <<5, 3>>

IsControl(ins) == ins.op \in {"loop", "br", "end", "if", "else", "return"}

StraightLine(code) == \A i \in 1..Len(code) : ~IsControl(code[i])

(* a metered block begins at function entry and after every control-flow   *)
(* instruction                                                              *)
BlockHead(code, pc) == IF pc = 1 THEN TRUE ELSE IsControl(code[pc - 1])

RECURSIVE BlockCost(_, _, _)
BlockCost(rules, code, pc) ==
    IF pc > Len(code) THEN 0
    ELSE instruction_cost(rules, code[pc])
         + (IF IsControl(code[pc]) THEN 0 ELSE BlockCost(rules, code, pc + 1))

(* the injected gas function: charges amount, traps when the counter cannot *)
(* pay it; the engine then reports no gas left                              *)
instrumented_use_gas(left, amount) ==
    IF amount > left THEN [trap |-> TRUE, left |-> 0]
    ELSE [trap |-> FALSE, left |-> left - amount]

(* the head of the innermost loop enclosing pc *)
LoopHead(code, pc) ==
    CHOOSE i \in 1..pc : /\ code[i].op = "loop"
                         /\ \A j \in (i + 1)..pc : code[j].op # "loop"

Pop(stack, n) == SubSeq(stack, 1, Len(stack) - n)

(* one wasm instruction on the operand stack *)
Execute(code, locals, pc, stack) ==
    LET ins == code[pc] n == Len(stack) IN
    CASE ins.op = "local.get" ->
            [pc |-> pc + 1, stack |-> Append(stack, locals[ins.arg])]
      [] ins.op = "i32.const" ->
            [pc |-> pc + 1, stack |-> Append(stack, ins.arg)]
      [] ins.op = "i32.add" ->
            [pc |-> pc + 1,
             stack |-> Append(Pop(stack, 2), stack[n - 1] + stack[n])]
      [] ins.op = "drop" -> [pc |-> pc + 1, stack |-> Pop(stack, 1)]
      [] ins.op = "br" -> [pc |-> LoopHead(code, pc) + 1, stack |-> stack]
      [] OTHER -> [pc |-> pc + 1, stack |-> stack]

(* the function as the original module runs it, without metering *)
RECURSIVE RunOriginal(_, _, _, _)
RunOriginal(code, locals, pc, stack) ==
    IF pc > Len(code) THEN stack
    ELSE LET e == Execute(code, locals, pc, stack) IN
         RunOriginal(code, locals, e.pc, e.stack)

RECURSIVE TotalCost(_, _, _)
TotalCost(rules, code, pc) ==
    IF pc > Len(code) THEN 0
    ELSE instruction_cost(rules, code[pc]) + TotalCost(rules, code, pc + 1)

NoMeter ==
    [code |-> <<>>, rules |-> DefaultRules, budget |-> 0, left |-> 0, pc |-> 0,
     stack |-> <<>>, charged |-> FALSE, status |-> "idle", error_code |-> 0]

-----------------------------------------------------------------------------
(* Modular arithmetic of the host (traits.rs addmod, mulmod, expmod).  A    *)
(* BigUint is a sequence of base-256 limbs of any length, least significant *)
(* first; its value is the sum of x[k] * 256^(k-1).                         *)

MaxWord == [i \in 1..WORD_LEN |-> 255]

(* BigUint::from_bytes_be *)
from_bytes_be(bytes) == [i \in 1..Len(bytes) |-> bytes[Len(bytes) - i + 1]]

Digit(x, k) == IF k >= 1 /\ k <= Len(x) THEN x[k] ELSE 0

is_zero(x) == \A i \in 1..Len(x) : x[i] = 0

is_one(x) == Digit(x, 1) = 1 /\ \A i \in 2..Len(x) : x[i] = 0

(* the value of a BigUint that has at most two significant digits *)
SmallValue(x) == Digit(x, 1) + 256 * Digit(x, 2)

FromSmall(v) == <<v % 256, v \div 256>>

(* the carry into digit k of a + b: some lower digit pair overflows and    *)
(* every pair between it and k passes the carry on                          *)
CarryInto(a, b, k) ==
    IF \E j \in 1..(k - 1) :
           /\ Digit(a, j) + Digit(b, j) >= 256
           /\ \A i \in (j + 1)..(k - 1) : Digit(a, i) + Digit(b, i) >= 255
    THEN 1 ELSE 0

SumDigit(a, b, k) == (Digit(a, k) + Digit(b, k) + CarryInto(a, b, k)) % 256

BigAddWrapping(a, b) == [k \in 1..WORD_LEN |-> SumDigit(a, b, k)]

(* &a + &b: the exact sum, one digit longer than the operands *)
BigAdd(a, b) == [k \in 1..((IF Len(a) > Len(b) THEN Len(a) ELSE Len(b)) + 1) |-> SumDigit(a, b, k)]

(* the sum of a[i] * b[k - i + 1] for i in lo..hi *)
RECURSIVE ConvSum(_, _, _, _, _)
ConvSum(a, b, k, lo, hi) ==
    IF lo > hi THEN 0
    ELSE IF lo = hi THEN a[lo] * Digit(b, k - lo + 1)
    ELSE ConvSum(a, b, k, lo, (lo + hi) \div 2)
         + ConvSum(a, b, k, (lo + hi) \div 2 + 1, hi)

(* &a * &b: the exact product; limb k is the k-th column sum, not reduced  *)
(* to a digit                                                               *)
BigMul(a, b) == [k \in 1..(Len(a) + Len(b)) |-> ConvSum(a, b, k, 1, Len(a))]

(* <<value of the limbs lo..hi modulo m, 256^(hi - lo + 1) modulo m>> *)
RECURSIVE RemRange(_, _, _, _)
RemRange(x, lo, hi, m) ==
    IF lo = hi THEN <<x[lo] % m, 256 % m>>
    ELSE LET l == RemRange(x, lo, (lo + hi) \div 2, m)
             h == RemRange(x, (lo + hi) \div 2 + 1, hi, m)
         IN <<(l[1] + l[2] * h[1]) % m, (l[2] * h[2]) % m>>

(* x % &n for a modulus of at most two digits *)
BigRem(x, n) == FromSmall(RemRange(x, 1, Len(x), SmallValue(n))[1])

(* <<b^d modulo m, b^256 modulo m>> for an exponent digit d, by repeated    *)
(* squaring: s_k is b^(2^k) and the bits of d pick the factors              *)
PowDigit(b, d, m) ==
    LET s0 == b % m
        s1 == (s0 * s0) % m
        s2 == (s1 * s1) % m
        s3 == (s2 * s2) % m
        s4 == (s3 * s3) % m
        s5 == (s4 * s4) % m
        s6 == (s5 * s5) % m
        s7 == (s6 * s6) % m
        Pick(k, s) == IF (d \div (2 ^ k)) % 2 = 1 THEN s ELSE 1
        p01 == (Pick(0, s0) * Pick(1, s1)) % m
        p23 == (Pick(2, s2) * Pick(3, s3)) % m
        p45 == (Pick(4, s4) * Pick(5, s5)) % m
        p67 == (Pick(6, s6) * Pick(7, s7)) % m
    IN <<(((p01 * p23) % m) * ((p45 * p67) % m)) % m, (s7 * s7) % m>>

(* <<b^E modulo m, b^(256^(hi - lo + 1)) modulo m>> for the value E of the  *)
(* exponent digits lo..hi                                                   *)
RECURSIVE PowRange(_, _, _, _, _)
PowRange(e, lo, hi, b, m) ==
    IF lo = hi THEN PowDigit(b, e[lo], m)
    ELSE LET l == PowRange(e, lo, (lo + hi) \div 2, b, m)
             h == PowRange(e, (lo + hi) \div 2 + 1, hi, l[2], m)
         IN <<(l[1] * h[1]) % m, h[2]>>

(* base.modpow(&exponent, &modulus): the base is reduced first; a base that *)
(* is a multiple of the modulus gives 0 for every positive exponent         *)
modpow(base, exponent, modulus) ==
    LET m == SmallValue(modulus)
        b == RemRange(base, 1, Len(base), m)[1]
    IN IF b = 0 /\ ~is_zero(exponent) THEN <<0>>
       ELSE FromSmall(PowRange(exponent, 1, Len(exponent), b, m)[1])

(* traits.rs bigint_to_bytes32: the 32 least significant bytes, big-endian, *)
(* zero-padded on the left                                                  *)
bigint_to_bytes32(value) == [i \in 1..WORD_LEN |-> Digit(value, WORD_LEN + 1 - i)]

(* traits.rs EvmHost::addmod *)
addmod(a_bytes, b_bytes, n_bytes) ==
    LET a == from_bytes_be(a_bytes)
        b == from_bytes_be(b_bytes)
        n == from_bytes_be(n_bytes)
    IN bigint_to_bytes32(IF is_zero(n) THEN <<0>>
                         ELSE BigRem(BigAdd(a, b), n))

(* traits.rs EvmHost::mulmod *)
mulmod(a_bytes, b_bytes, n_bytes) ==
    LET a == from_bytes_be(a_bytes)
        b == from_bytes_be(b_bytes)
        n == from_bytes_be(n_bytes)
    IN bigint_to_bytes32(IF is_zero(n) THEN <<0>>
                         ELSE BigRem(BigMul(a, b), n))

(* traits.rs EvmHost::expmod *)
expmod(base_bytes, exp_bytes, mod_bytes) ==
    LET base == from_bytes_be(base_bytes)
        exponent == from_bytes_be(exp_bytes)
        modulus == from_bytes_be(mod_bytes)
    IN bigint_to_bytes32(IF is_zero(modulus) THEN <<0>>
                         ELSE IF is_one(modulus) THEN <<0>>
                         ELSE IF is_zero(exponent) THEN <<1>>
                         ELSE IF is_zero(base) THEN <<0>>
                         ELSE modpow(base, exponent, modulus))

Init ==
    /\ ctx = TopContext
    /\ frames = <<>>
    /\ return_data = <<>>
    /\ execution_status = "None"
    /\ events = <<>>
    /\ storage = EmptyMap
    /\ contract_registry = Registry0
    /\ external_codes = EmptyMap
    /\ result = NoResult
    /\ invocations = 0
    /\ ops = MaxOps
    /\ writes = EmptyMap
    /\ meter = NoMeter
    /\ last = NoLast

(* One running instance of a host that knows the code of one external      *)
(* account, with call data and last return data present.                    *)
InitBridge ==
    /\ ctx = [TopContext EXCEPT !.call_data = <<1, 2, 3, 4>>]
    /\ frames = <<NewFrame(ctx.address, ctx.caller, ctx.call_value,
                           ctx.call_data, ctx.contract_code, "top", "call")>>
    /\ return_data \in {<<>>, <<5, 6, 7>>}
    /\ execution_status = "None"
    /\ events = <<>>
    /\ storage = EmptyMap
    /\ contract_registry = Registry0
    /\ external_codes = [a \in {TargetAddress} |-> <<96, 0, 96, 0, 243>>]
    /\ result = NoResult
    /\ invocations = 1
    /\ ops = MaxBridgeOps
    /\ writes = EmptyMap
    /\ meter = NoMeter
    /\ last = NoLast

----------------------------------------------------------------------------
(* Primitives that touch only the memory of the calling instance *)

CanCall == Running /\ ops > 0

Cells == <<return_data, execution_status, events, storage, contract_registry>>

Prim(op, r, l) ==
    /\ frames' = SetTop(AfterPrimitive(op, r))
    /\ ops' = ops - 1
    /\ last' = l
    /\ UNCHANGED <<ctx, Cells, external_codes, meter, writes, result, invocations>>

ResOffsets == {-1, D_OFF, MemSize - 2}
Lengths == {-1, 0, 3, 6}
SrcOffsets == {-1, 0, 3, 9}
AddrOffsets == {-1, 0, V_OFF}

CallDataCopy(res, src, len) ==
    /\ CanCall
    /\ LET r == call_data_copy(Top.mem, Top.call_data, res, src, len)
       IN Prim("call_data_copy", r,
               Copied("call_data_copy", r, res, src, len, Top.call_data))

ReturnDataCopy(res, src, len) ==
    /\ CanCall
    /\ LET r == return_data_copy(Top.mem, return_data, res, src, len)
       IN Prim("return_data_copy", r,
               Copied("return_data_copy", r, res, src, len, return_data))

CodeCopy(res, src, len) ==
    /\ CanCall
    /\ LET r == code_copy(Top.mem, Top.contract_code, res, src, len)
       IN Prim("code_copy", r,
               Copied("code_copy", r, res, src, len, Top.contract_code))

(* The code of the account named at addr_offset, empty when the host has    *)
(* none or the address cannot be read.                                      *)
ExternalSource(mem, addr_offset) ==
    LET a == validate_address_param(addr_offset) IN
    IF ~a.ok THEN <<>>
    ELSE LET code == host_external_code_copy(external_codes,
                                             read_bytes(mem, a.val, ADDR_LEN).val)
         IN IF code.some THEN code.val ELSE <<>>

ExternalCodeCopy(addr_offset, res, src, len) ==
    /\ CanCall
    /\ LET r == external_code_copy(Top.mem, external_codes, addr_offset,
                                   res, src, len)
       IN Prim("external_code_copy", r,
               Copied("external_code_copy", r, res, src, len,
                      ExternalSource(Top.mem, addr_offset)))

(* The wrapper returns unwrap_or_default() of the result *)
GetExternalCodeSize(addr_offset) ==
    /\ CanCall
    /\ LET r == get_external_code_size(Top.mem, external_codes, addr_offset)
       IN Prim("get_external_code_size", r,
               [Done("get_external_code_size", r) EXCEPT
                   !.scalar = IF r.err THEN 0 ELSE r.scalar,
                   !.res = addr_offset])

GetExternalBalance(addr_offset, res) ==
    /\ CanCall
    /\ LET r == address_to_word(Top.mem, addr_offset, res, WordOf(1))
       IN Prim("get_external_balance", r,
               [Done("get_external_balance", r) EXCEPT !.res = res])

GetAddress(res) ==
    /\ CanCall
    /\ LET r == write_address_result(Top.mem, res, Top.address)
       IN Prim("get_address", r, [Done("get_address", r) EXCEPT !.res = res])

GetCaller(res) ==
    /\ CanCall
    /\ LET r == write_address_result(Top.mem, res, Top.caller)
       IN Prim("get_caller", r, [Done("get_caller", r) EXCEPT !.res = res])

GetCallValue(res) ==
    /\ CanCall
    /\ LET r == write_bytes32_result(Top.mem, res, Top.call_value)
       IN Prim("get_call_value", r,
               [Done("get_call_value", r) EXCEPT !.res = res])

GetBlockHash(block_num, res) ==
    /\ CanCall
    /\ LET r == get_block_hash(Top.mem, 2, Some(WordOf(6)), block_num, res)
       IN Prim("get_block_hash", r,
               [Done("get_block_hash", r) EXCEPT !.res = res])

StorageLoad(key_offset, res) ==
    /\ CanCall
    /\ LET r == storage_load(Top.mem, storage, key_offset, res)
       IN Prim("storage_load", r,
               [Done("storage_load", r) EXCEPT
                   !.res = res,
                   !.key = read_bytes(Top.mem, AsU32(key_offset), WORD_LEN).val])

(* A faulty host: the newest event is put in front *)
host_emit_log_event_front(evs, event) == <<event>> \o evs

(* MockContext::emit_log_event: events.borrow_mut().push(event) *)
host_emit_log_event(evs, event) == Append(evs, event)

EmitLogEvent(data_offset, length, num_topics, topic_offsets) ==
    /\ CanCall
    /\ LET e == emit_log_event_args(Top.mem, Top.address, data_offset, length,
                                    num_topics, topic_offsets)
           r == R(~e.ok, Top.mem, 0)
       IN /\ frames' = SetTop(AfterPrimitive("emit_log_event", r))
          /\ events' = IF e.ok THEN host_emit_log_event(events, e.val)
                       ELSE events
          /\ ops' = ops - 1
          /\ last' = [Done("emit_log_event", r) EXCEPT
                         !.len = num_topics,
                         !.args = <<data_offset, length, num_topics,
                                    topic_offsets>>,
                         !.error = IF e.ok THEN @
                                   ELSE [kind |-> e.kind, param |-> e.param]]
          /\ UNCHANGED <<ctx, return_data, execution_status, storage,
                         contract_registry, external_codes, meter, writes, result, invocations>>

(* History of the stores: what a map from 32-byte keys to 32-byte values   *)
(* holds after this store, with the frame depth and the invocation of the   *)
(* store.                                                                   *)
Recorded(w, key, value) ==
    [k \in DOMAIN w \cup {key} |->
        IF k = key
        THEN [value |-> value, depth |-> Len(frames), invocation |-> invocations]
        ELSE w[k]]

(* storage_store: both words read, then the host insert *)
StorageStore(key_offset, value_offset) ==
    /\ CanCall
    /\ LET a == storage_store_args(Top.mem, key_offset, value_offset)
           r == R(~a.ok, Top.mem, 0)
       IN /\ frames' = SetTop(AfterPrimitive("storage_store", r))
          /\ storage' = IF a.ok
                        THEN host_storage_store(storage, a.val[1], a.val[2])
                        ELSE storage
          /\ writes' = IF a.ok
                       THEN Recorded(writes, a.val[1], a.val[2])
                       ELSE writes
          /\ ops' = ops - 1
          /\ last' = [Done("storage_store", r) EXCEPT
                         !.res = key_offset,
                         !.key = IF a.ok THEN a.val[1] ELSE <<>>,
                         !.value = IF a.ok THEN a.val[2] ELSE <<>>]
          /\ UNCHANGED <<ctx, return_data, execution_status, events,
                         contract_registry, external_codes, meter, result, invocations>>

----------------------------------------------------------------------------
(* Control primitives: control.rs with MockContext::finish / revert /       *)
(* invalid / self_destruct.  instance.exit(code) ends the frame.            *)

Control(op, r, pc, data, status, out, args) ==
    /\ frames' = SetTop([AfterPrimitive(op, r) EXCEPT
                            !.pc = IF r.err THEN @ ELSE pc,
                            !.out = IF r.err THEN @ ELSE out])
    /\ return_data' = IF r.err THEN return_data ELSE data
    /\ execution_status' = IF r.err THEN execution_status ELSE status
    /\ last' = [Done(op, r) EXCEPT !.args = args]
    /\ UNCHANGED <<ctx, events, storage, contract_registry, external_codes, meter, writes,
                   result, invocations, ops>>

Finish(data_offset, length) ==
    /\ Running
    /\ LET d == control_data(Top.mem, data_offset, length)
       IN Control("finish", R(~d.ok, Top.mem, 0), "exit0", d.val, "SomeTrue",
                  d.val, <<data_offset, length>>)

Revert(data_offset, length) ==
    /\ Running
    /\ LET d == control_data(Top.mem, data_offset, length)
       IN Control("revert", R(~d.ok, Top.mem, 0), "exit1", d.val, "SomeFalse",
                  d.val, <<data_offset, length>>)

(* invalid: the status becomes Some(false), return_data is left as it is *)
Invalid ==
    /\ Running
    /\ Control("invalid", R(FALSE, Top.mem, 0), "exit2", return_data,
               "SomeFalse", Top.out, <<>>)

(* self_destruct: the beneficiary is read, no cell is written, exit(3) *)
SelfDestruct(addr_offset) ==
    /\ Running
    /\ LET a == validate_address_param(addr_offset)
       IN Control("self_destruct", R(~a.ok, Top.mem, 0), "exit3",
                  return_data, execution_status, Top.out, <<addr_offset>>)

(* The entry point returns without calling a control primitive *)
GuestReturn ==
    /\ Running
    /\ frames' = SetTop([Top EXCEPT !.pc = "returned"])
    /\ last' = [NoLast EXCEPT !.op = "return"]
    /\ UNCHANGED <<ctx, Cells, external_codes, meter, writes, result, invocations, ops>>

(* The guest traps (unreachable, out-of-bounds access, ...) *)
GuestTrap ==
    /\ Running
    /\ frames' = SetTop([Top EXCEPT !.pc = "trap"])
    /\ last' = [NoLast EXCEPT !.op = "trap"]
    /\ UNCHANGED <<ctx, Cells, external_codes, meter, writes, result, invocations, ops>>

----------------------------------------------------------------------------
(* Nested calls: contract.rs, MockContext::call_*, ContractExecutor *)

Variants == {"call", "callcode", "delegatecall", "staticcall"}

(* contract.rs call_contract / call_code / call_delegate / call_static:     *)
(* the offsets are validated, then target, value and data are read.         *)
(* call_delegate and call_static take no value argument.                    *)
call_args(mem, variant, addr_offset, value_offset, data_offset, data_length) ==
    LET a == validate_address_param(addr_offset) IN
    IF ~a.ok THEN Err
    ELSE LET v == IF variant \in {"call", "callcode"}
                  THEN validate_bytes32_param(value_offset) ELSE Ok(0) IN
    IF ~v.ok THEN Err
    ELSE LET d == validate_data_param(data_offset, data_length) IN
    IF ~d.ok THEN Err
    ELSE Ok([target |-> read_bytes(mem, a.val, ADDR_LEN).val,
             value |-> IF variant \in {"call", "callcode"}
                       THEN read_bytes(mem, v.val, WORD_LEN).val ELSE ZeroWord,
             data |-> read_bytes(mem, d.val[1], d.val[2]).val])

(* A faulty derivation: every variant runs the child at the target *)
ChildAddressIsTarget(variant, target, current_address) == target

(* MockContext::call_*: the address handed to execute_contract_call *)
ChildAddress(variant, target, current_address) ==
    IF variant \in {"call", "staticcall"} THEN target ELSE current_address

(* MockContext::call_*: the value handed to execute_contract_call *)
ChildValue(variant, value, current_value) ==
    IF variant \in {"call", "callcode"} THEN value
    ELSE IF variant = "delegatecall" THEN current_value
    ELSE ZeroWord

(* contract.rs: caller_address = evmhost.get_caller() in every variant *)
ChildCaller(frame) == frame.caller

TargetCodeRequired(registry, target, current_code) ==
    IF target \in DOMAIN registry THEN registry[target] ELSE <<>>

(* get_contract_info(target), or the caller's own code when absent *)
TargetCodeOf(registry, target, current_code) ==
    IF target \in DOMAIN registry THEN registry[target] ELSE current_code

(* A faulty set-up: the setters of execute_contract_call applied to the    *)
(* calling context itself                                                   *)
ParentTakesChildIdentity(parent, child, pend) ==
    [parent EXCEPT !.pend = pend, !.address = child.address,
                   !.caller = child.caller, !.call_value = child.call_value,
                   !.call_data = child.call_data,
                   !.contract_code = child.contract_code]

(* execute_contract_call / execute_contract_deployment: the setters run on  *)
(* self.clone(); the calling context keeps its own fields while it waits    *)
(* with the arguments of its pending primitive.                             *)
SuspendedParent(parent, child, pend) == [parent EXCEPT !.pend = pend]

(* The wrapper's return value: Ok(_) => 0, Err(_) => 1 *)
wrapper_status(err) == IF err THEN 1 ELSE 0

call_contract_function_keeps_data(pc, rd, status) ==
    [success |-> call_wasm_func_ok(pc) /\ status # "SomeFalse",
     return_data |-> rd, is_reverted |-> status = "SomeFalse"]

(* ContractExecutor::call_contract_function after call_wasm_func("call") *)
call_contract_function(pc, rd, status) ==
    IF call_wasm_func_ok(pc)
    THEN [success |-> status # "SomeFalse",
          return_data |-> IF rd # <<>> THEN rd ELSE <<>>,
          is_reverted |-> status = "SomeFalse"]
    ELSE [success |-> FALSE, return_data |-> <<>>,
          is_reverted |-> status = "SomeFalse"]

(* A call primitive up to the start of the child instance.  A bridge error  *)
(* and a module that does not load end the primitive at once.               *)
Call(variant, addr_offset, data_length) ==
    /\ CanCall
    /\ Len(frames) < MaxDepth
    /\ ops' = ops - 1
    /\ UNCHANGED <<ctx, Cells, external_codes, meter, writes, result, invocations>>
    /\ LET a == call_args(Top.mem, variant, addr_offset, V_OFF, D_OFF,
                          data_length)
           r == R(~a.ok, Top.mem, wrapper_status(~a.ok))
           code == TargetCodeOf(contract_registry, a.val.target,
                                Top.contract_code)
       IN IF ~a.ok \/ ~load_module_ok(code)
          THEN /\ frames' = SetTop(AfterPrimitive(variant, r))
               /\ last' = [Done(variant, r) EXCEPT !.variant = variant,
                                                   !.res = addr_offset]
          ELSE /\ frames' =
                    LET child == NewFrame(ChildAddress(variant, a.val.target,
                                                       Top.address),
                                          ChildCaller(Top),
                                          ChildValue(variant, a.val.value,
                                                     Top.call_value),
                                          a.val.data, code, variant, "call")
                        pend == [NoPend EXCEPT !.kind = variant,
                                               !.addr_offset = addr_offset,
                                               !.value_offset = V_OFF,
                                               !.data_offset = D_OFF,
                                               !.data_length = data_length,
                                               !.storage = storage,
                                               !.contract_registry =
                                                   contract_registry]
                    IN Append(SetTop(SuspendedParent(Top, child, pend)), child)
               /\ last' = [NoLast EXCEPT !.op = "enter", !.variant = variant]

(* contract.rs create_contract: value, code, data, salt (CREATE2 only) and  *)
(* result offsets are validated, then the arguments are read.               *)
create_args(mem, value_offset, code_offset, code_length, data_offset, data_length, salt_offset, is_create2, result_offset) ==
    LET v == validate_bytes32_param(value_offset) IN
    IF ~v.ok THEN Err
    ELSE LET c == validate_data_param(code_offset, code_length) IN
    IF ~c.ok THEN Err
    ELSE LET d == validate_data_param(data_offset, data_length) IN
    IF ~d.ok THEN Err
    ELSE LET t == IF is_create2 # 0 THEN validate_bytes32_param(salt_offset)
                  ELSE Ok(0) IN
    IF ~t.ok THEN Err
    ELSE LET res == validate_address_param(result_offset) IN
    IF ~res.ok THEN Err
    ELSE Ok([value |-> read_bytes(mem, v.val, WORD_LEN).val,
             code |-> read_bytes(mem, c.val[1], c.val[2]).val,
             data |-> read_bytes(mem, d.val[1], d.val[2]).val,
             result_offset |-> res.val])

(* generate_create_address / generate_create2_address *)
generate_create_address == [i \in 1..ADDR_LEN |-> IF i = ADDR_LEN THEN 9 ELSE 0]
generate_create2_address == [i \in 1..ADDR_LEN |-> IF i = ADDR_LEN THEN 99 ELSE 0]

register_contract(registry, address, code) ==
    [a \in DOMAIN registry \cup {address} |->
        IF a = address THEN code ELSE registry[a]]

(* code[4..] *)
RuntimeCode(code) == SubSeq(code, 5, Len(code))

(* A faulty check: no creation code is refused *)
code_never_empty(code) == FALSE

(* MockContext::create_contract: if code.is_empty() { return failure } *)
code_is_empty(code) == code = <<>>

(* create_contract ends without a running constructor: the address (or the *)
(* zero address) is written at result_offset and the wrapper returns 0.     *)
CreateEnds(a, address, success, rd, status, registry) ==
    LET w == write_bytes(Top.mem, a.val.result_offset, address)
        r == R(~w.ok, w.mem, wrapper_status(~w.ok))
    IN /\ frames' = SetTop(AfterPrimitive("create", r))
       /\ return_data' = rd
       /\ execution_status' = status
       /\ contract_registry' = registry
       /\ result' = result
       /\ last' = [Done("create", r) EXCEPT
                      !.success = success,
                      !.res = a.val.result_offset,
                      !.args = <<Len(a.val.code), Len(a.val.data)>>]

CreateContract(code_length, data_length, is_create2, result_offset) ==
    /\ CanCall
    /\ (data_length > 0 /\ code_length >= 4) => Len(frames) < MaxDepth
    /\ ops' = ops - 1
    /\ UNCHANGED <<ctx, events, storage, external_codes, meter, writes, invocations>>
    /\ LET a == create_args(Top.mem, V_OFF, D_OFF, code_length, D_OFF,
                            data_length, V_OFF, is_create2, result_offset)
           new_address == IF is_create2 # 0 THEN generate_create2_address
                          ELSE generate_create_address
       IN IF ~a.ok
          THEN /\ frames' = SetTop(AfterPrimitive("create", R(TRUE, Top.mem, 1)))
               /\ last' = [Done("create", R(TRUE, Top.mem, 1)) EXCEPT
                              !.res = result_offset]
               /\ UNCHANGED <<return_data, execution_status,
                              contract_registry, result>>
          ELSE IF code_is_empty(a.val.code)
          THEN CreateEnds(a, ZeroAddr, FALSE, return_data, execution_status,
                          contract_registry)
          ELSE IF a.val.data = <<>>
          THEN CreateEnds(a, new_address, TRUE, return_data, execution_status,
                          register_contract(contract_registry, new_address,
                                            a.val.code))
          ELSE IF Len(a.val.code) < 4
          THEN \* code[4..] panics inside the extern "C" wrapper
               /\ frames' = <<>>
               /\ result' = [NoResult EXCEPT !.state = "aborted"]
               /\ last' = [NoLast EXCEPT !.op = "abort"]
               /\ UNCHANGED <<return_data, execution_status, contract_registry>>
          ELSE IF ~load_module_ok(RuntimeCode(a.val.code))
          THEN CreateEnds(a, ZeroAddr, FALSE, <<>>, "SomeTrue",
                          contract_registry)
          ELSE /\ frames' =
                    LET child == NewFrame(new_address, Top.address,
                                          a.val.value, a.val.data,
                                          RuntimeCode(a.val.code),
                                          "create", "deploy")
                        pend == [NoPend EXCEPT
                                    !.kind = "create",
                                    !.result_offset = a.val.result_offset,
                                    !.new_address = new_address,
                                    !.code = a.val.code,
                                    !.storage = storage,
                                    !.contract_registry = contract_registry]
                    IN Append(SetTop(SuspendedParent(Top, child, pend)), child)
               /\ last' = [NoLast EXCEPT !.op = "enter", !.variant = "create"]
               /\ UNCHANGED <<return_data, execution_status,
                              contract_registry, result>>

(* ContractExecutor::deploy_contract seen by execute_contract_deployment:   *)
(* Ok(()) gives success with the return_data cell, Err gives failure.       *)
execute_contract_deployment(pc, rd) ==
    IF call_wasm_func_ok(pc)
    THEN [success |-> TRUE, return_data |-> rd, is_reverted |-> FALSE]
    ELSE [success |-> FALSE, return_data |-> <<>>, is_reverted |-> FALSE]

(* A faulty clone: the child works on a copy of the cell, the parent keeps  *)
(* the content the cell had when the call was made                          *)
CopiedCell(cell, at_call) == at_call

(* #[derive(Clone)] on MockContext clones the Rc handle of a cell, not the  *)
(* cell: after the call the parent reads what the child left in it.         *)
SharedCell(cell, at_call) == cell

(* The child instance has ended: the rest of MockContext::call_* or        *)
(* create_contract, of the bridge function and of the wrapper runs in the   *)
(* parent.  set_return_data stores the data and Some(true).                 *)
FrameReturn ==
    /\ Len(frames) >= 2
    /\ Top.pc # "running"
    /\ LET child == Top
           parent == frames[Len(frames) - 1]
           below == SubSeq(frames, 1, Len(frames) - 2)
       IN IF child.entry = "call"
          THEN LET exec == call_contract_function(child.pc, return_data,
                                                  execution_status)
                   success == exec.success /\ ~exec.is_reverted
                   success_code == IF success THEN 1 ELSE 0
               IN /\ return_data' = exec.return_data
                  /\ execution_status' = "SomeTrue"
                  /\ contract_registry' =
                        SharedCell(contract_registry,
                                   parent.pend.contract_registry)
                  /\ frames' = Append(below, [parent EXCEPT !.pend = NoPend])
                  /\ last' = [NoLast EXCEPT !.op = "call_return",
                                 !.variant = parent.pend.kind,
                                 !.success = success,
                                 !.scalar = wrapper_status(FALSE),
                                 !.pre_mem = parent.mem,
                                 !.child = child,
                                 !.source = return_data,
                                 !.len = success_code]
          ELSE LET dep == execute_contract_deployment(child.pc, return_data)
                   address == IF dep.success THEN parent.pend.new_address
                              ELSE ZeroAddr
                   w == write_bytes(parent.mem, parent.pend.result_offset,
                                    address)
               IN /\ return_data' = dep.return_data
                  /\ execution_status' = "SomeTrue"
                  /\ contract_registry' =
                        LET registry == SharedCell(contract_registry,
                                            parent.pend.contract_registry)
                        IN IF dep.success
                           THEN register_contract(registry,
                                                  parent.pend.new_address,
                                                  parent.pend.code)
                           ELSE registry
                  /\ frames' = Append(below, [parent EXCEPT !.pend = NoPend,
                                                            !.mem = w.mem])
                  /\ last' = [NoLast EXCEPT !.op = "create_return",
                                 !.variant = "create",
                                 !.success = dep.success,
                                 !.err = ~w.ok,
                                 !.scalar = wrapper_status(~w.ok),
                                 !.pre_mem = parent.mem,
                                 !.res = parent.pend.result_offset,
                                 !.child = child,
                                 !.source = return_data]
    /\ storage' = SharedCell(storage, frames[Len(frames) - 1].pend.storage)
    /\ UNCHANGED <<ctx, events, external_codes, meter, writes, result, invocations,
                   ops>>

----------------------------------------------------------------------------
(* Top-level invocation: set_call_data, then                                *)
(* ContractExecutor::call_contract_function on the caller's context         *)

Invoke(data) ==
    /\ frames = <<>>
    /\ result.state # "aborted"
    /\ invocations < MaxInvocations
    /\ invocations' = invocations + 1
    /\ ctx' = [ctx EXCEPT !.call_data = data]
    /\ frames' = <<NewFrame(ctx.address, ctx.caller, ctx.call_value, data,
                            ctx.contract_code, "top", "call")>>
    /\ result' = NoResult
    /\ last' = [NoLast EXCEPT !.op = "invoke"]
    /\ UNCHANGED <<Cells, external_codes, meter, writes, ops>>

TopReturn ==
    /\ Len(frames) = 1
    /\ Top.pc # "running"
    /\ LET exec == call_contract_function(Top.pc, return_data,
                                          execution_status)
       IN result' = [state |-> "done", success |-> exec.success,
                     return_data |-> exec.return_data,
                     is_reverted |-> exec.is_reverted]
    /\ frames' = <<>>
    /\ last' = [NoLast EXCEPT !.op = "top_return", !.child = Top]
    /\ UNCHANGED <<ctx, Cells, external_codes, meter, writes, invocations, ops>>

CallArgs ==
    {<<0, 2>>, <<V_OFF, 2>>, <<G_OFF, 2>>, <<-1, 2>>}

(* Every variant towards the registered target and towards an address the  *)
(* registry does not know; CALL with every argument tuple.                  *)
CallChoices ==
    {c \in Variants \X CallArgs : c[1] = "call" \/ c[2][1] \in {0, V_OFF}}

(* A frame that is itself a child calls the registered target with CALL. *)
CallChoicesAt(depth) ==
    IF depth <= 1 THEN CallChoices
    ELSE {c \in CallChoices : c[1] = "call" /\ c[2][1] = 0}

CreateArgs ==
    {<<8, 2, 0, 0>>, <<8, 0, 1, 0>>, <<0, 0, 0, 0>>, <<2, 2, 0, 0>>,
     <<6, 2, 0, 0>>, <<8, 2, 0, -1>>}

(* A frame that is itself a child creates with a loadable code and data. *)
CreateArgsAt(depth) ==
    IF depth <= 1 THEN CreateArgs ELSE {<<8, 2, 0, 0>>}

Next ==
    \/ \E data \in {<<1, 2, 3, 4>>} : Invoke(data)
    \/ \E c \in CallChoicesAt(Len(frames)) : Call(c[1], c[2][1], c[2][2])
    \/ \E c \in CreateArgsAt(Len(frames)) : CreateContract(c[1], c[2], c[3], c[4])
    \/ FrameReturn
    \/ TopReturn
    \/ \E k \in {-1, V_OFF} : StorageStore(k, 0)
    \/ StorageLoad(V_OFF, D_OFF - WORD_LEN)
    \/ \E len \in {-1, 0, 2} : Finish(D_OFF, len)
    \/ \E len \in {2} : Revert(D_OFF, len)
    \/ Invalid
    \/ \E a \in {0} : SelfDestruct(a)
    \/ GuestReturn
    \/ GuestTrap

Spec == Init /\ [][Next]_vars

NextBridge ==
    \/ \E res \in ResOffsets, src \in SrcOffsets, len \in Lengths :
           CallDataCopy(res, src, len)
    \/ \E res \in ResOffsets, src \in SrcOffsets, len \in Lengths :
           ReturnDataCopy(res, src, len)
    \/ \E res \in ResOffsets, src \in SrcOffsets, len \in Lengths :
           CodeCopy(res, src, len)
    \/ \E a \in AddrOffsets, res \in ResOffsets, src \in SrcOffsets,
          len \in Lengths : ExternalCodeCopy(a, res, src, len)
    \/ \E a \in AddrOffsets : GetExternalCodeSize(a)
    \/ \E a \in AddrOffsets, res \in ResOffsets : GetExternalBalance(a, res)
    \/ \E res \in ResOffsets \cup {0} : GetAddress(res)
    \/ \E res \in ResOffsets \cup {0} : GetCaller(res)
    \/ \E res \in ResOffsets \cup {0} : GetCallValue(res)
    \/ \E n \in {-1, 1, 2}, res \in ResOffsets \cup {0} : GetBlockHash(n, res)
    \/ \E k \in {-1, V_OFF}, res \in ResOffsets \cup {0} : StorageLoad(k, res)
    \/ \E d \in {-1, D_OFF}, n \in {-1, 0, 1, 5}, t \in {0, V_OFF, MemSize} :
           EmitLogEvent(d, 2, n, <<t, 0, 0, 0>>)
    \/ \E k \in {-1, V_OFF}, v \in {0, MemSize - WORD_LEN + 1} :
           StorageStore(k, v)
    \/ \E d \in {-1, D_OFF}, len \in {-1, 2, MemSize} : Finish(d, len)
    \/ \E d \in {-1, D_OFF}, len \in {-1, 2, MemSize} : Revert(d, len)
    \/ \E a \in AddrOffsets \cup {MemSize} : SelfDestruct(a)

SpecBridge == InitBridge /\ [][NextBridge]_vars

(* One running instance that works on the state cells of its host: several  *)
(* stores and loads on two keys, and log events.                            *)
InitState ==
    /\ ctx = [TopContext EXCEPT !.call_data = <<1, 2, 3, 4>>]
    /\ frames = <<NewFrame(ctx.address, ctx.caller, ctx.call_value,
                           ctx.call_data, ctx.contract_code, "top", "call")>>
    /\ return_data = <<>>
    /\ execution_status = "None"
    /\ events = <<>>
    /\ storage = EmptyMap
    /\ contract_registry = Registry0
    /\ external_codes = EmptyMap
    /\ result = NoResult
    /\ invocations = 1
    /\ ops = MaxStateOps
    /\ writes = EmptyMap
    /\ meter = NoMeter
    /\ last = NoLast

(* Two keys that differ in their last byte only: the all-zero word at       *)
(* K0_OFF and the value word at V_OFF.                                      *)
K0_OFF == V_OFF - 1

(* Two topics in either order, and a second topic outside the memory *)
T2_OFF == MemSize - WORD_LEN
TopicOffsets ==
    {<<V_OFF, T2_OFF, 0, 0>>, <<T2_OFF, V_OFF, 0, 0>>, <<V_OFF, MemSize, 0, 0>>}

NextState ==
    \/ \E k \in {K0_OFF, V_OFF}, v \in {0, MemSize - WORD_LEN} :
           StorageStore(k, v)
    \/ \E k \in {-1, K0_OFF, V_OFF} : StorageLoad(k, 0)
    \/ \E n \in {-1, 2, 5}, t \in TopicOffsets :
           EmitLogEvent(D_OFF, 2, n, t)

SpecState == InitState /\ [][NextState]_vars

-----------------------------------------------------------------------------
(* Execution of a metered function (tests/gas_test.rs, transform.rs tests) *)

hostvars == <<ctx, frames, return_data, execution_status, events, storage, contract_registry, external_codes, result, invocations, ops, writes, last>>

(* set_gas_left(budget) and the call of the exported function *)
InitGas ==
    /\ ctx = TopContext
    /\ frames = <<>>
    /\ return_data = <<>>
    /\ execution_status = "None"
    /\ events = <<>>
    /\ storage = EmptyMap
    /\ contract_registry = Registry0
    /\ external_codes = EmptyMap
    /\ result = NoResult
    /\ invocations = 0
    /\ ops = 0
    /\ writes = EmptyMap
    /\ last = NoLast
    /\ meter \in {[code |-> c, rules |-> r, budget |-> b, left |-> b, pc |-> 1,
                   stack |-> <<>>, charged |-> FALSE, status |-> "running",
                   error_code |-> 0] :
                      c \in Bodies, r \in RuleSets, b \in 0..MaxGas}

(* the call of the gas function injected at the head of a metered block *)
ChargeBlock ==
    /\ meter.status = "running"
    /\ meter.pc <= Len(meter.code)
    /\ BlockHead(meter.code, meter.pc)
    /\ ~meter.charged
    /\ LET g == instrumented_use_gas(meter.left, BlockCost(meter.rules, meter.code, meter.pc)) IN
       meter' = IF g.trap
                THEN [meter EXCEPT !.left = g.left, !.status = "trapped",
                                   !.error_code = OUT_OF_GAS]
                ELSE [meter EXCEPT !.left = g.left, !.charged = TRUE]
    /\ UNCHANGED hostvars

ExecuteInstruction ==
    /\ meter.status = "running"
    /\ meter.pc <= Len(meter.code)
    /\ BlockHead(meter.code, meter.pc) => meter.charged
    /\ LET e == Execute(meter.code, AddArgs, meter.pc, meter.stack) IN
       meter' = [meter EXCEPT !.pc = e.pc, !.stack = e.stack,
                              !.charged = FALSE]
    /\ UNCHANGED hostvars

(* the function returns to call_wasm_func *)
FunctionReturn ==
    /\ meter.status = "running"
    /\ meter.pc > Len(meter.code)
    /\ meter' = [meter EXCEPT !.status = "returned"]
    /\ UNCHANGED hostvars

NextGas == ChargeBlock \/ ExecuteInstruction \/ FunctionReturn

SpecGas == InitGas /\ [][NextGas]_vars /\ WF_vars(NextGas)

-----------------------------------------------------------------------------
(* The arithmetic primitives of EvmHost on 32-byte operands *)

(* 2^255 *)
HighWord == [i \in 1..WORD_LEN |-> IF i = 1 THEN 128 ELSE 0]

MathWords == {WordOf(0), WordOf(1), WordOf(100), HighWord, MaxWord}

Moduli == {WordOf(0), WordOf(1), WordOf(7)}

(* the three operands of one call are chosen *)
InitMath ==
    /\ ctx = TopContext
    /\ frames = <<>>
    /\ return_data = <<>>
    /\ execution_status = "None"
    /\ events = <<>>
    /\ storage = EmptyMap
    /\ contract_registry = Registry0
    /\ external_codes = EmptyMap
    /\ result = NoResult
    /\ invocations = 0
    /\ ops = 0
    /\ writes = EmptyMap
    /\ meter = NoMeter
    /\ last \in {[NoLast EXCEPT !.args = <<a, b, n>>] :
                     a \in MathWords, b \in MathWords, n \in Moduli}

Math(op, value) ==
    /\ last' = [last EXCEPT !.op = op, !.value = value]
    /\ UNCHANGED <<ctx, frames, Cells, external_codes, meter, writes, result, invocations, ops>>

AddMod ==
    /\ last.op = "none"
    /\ Math("addmod", addmod(last.args[1], last.args[2], last.args[3]))

MulMod ==
    /\ last.op = "none"
    /\ Math("mulmod", mulmod(last.args[1], last.args[2], last.args[3]))

ExpMod ==
    /\ last.op = "none"
    /\ Math("expmod", expmod(last.args[1], last.args[2], last.args[3]))

NextMath == AddMod \/ MulMod \/ ExpMod

SpecMath == InitMath /\ [][NextMath]_vars

----------------------------------------------------------------------------
(* Properties of the memory primitives (SpecBridge) *)

(* The destination [res, res + len) holds the available bytes of the source *)
(* from src on, then zeros; every other byte of memory is as before.        *)
ZeroFilled ==
    /\ \A i \in 0..(last.len - 1) :
           Top.mem[last.res + i] =
               IF last.src + i < Len(last.source)
               THEN last.source[last.src + i + 1] ELSE 0
    /\ \A a \in DOMAIN Top.mem :
           (a < last.res \/ a >= last.res + last.len)
               => Top.mem[a] = last.pre_mem[a]

ValidCopyArgs ==
    /\ last.res >= 0 /\ last.len >= 0 /\ last.src >= 0
    /\ last.res + last.len <= MemSize

(* C1: callDataCopy, returnDataCopy and externalCodeCopy with valid res/len *)
(* and src >= 0 write exactly len bytes at res: the available bytes of      *)
(* source[src..] first, zeros for the rest; src beyond the source or an     *)
(* unknown external account gives len zero bytes.                           *)
C1_CopyZeroFill ==
    /\ (/\ frames # <<>>
        /\ last.op \in {"call_data_copy", "return_data_copy",
                        "external_code_copy"}
        /\ ~last.err)
           => (ValidCopyArgs /\ ZeroFilled)
    /\ (/\ last.op \in {"call_data_copy", "return_data_copy"}
        /\ ValidCopyArgs)
           => ~last.err

C1_Witness ==
    /\ frames # <<>>
    /\ last.op = "call_data_copy"
    /\ ~last.err
    /\ last.src = 3 /\ last.len = 6
    /\ last.pre_mem[last.res + 1] # 0
    /\ Top.mem[last.res + 1] = 0

(* C2: codeCopy with valid res/len and src >= 0 writes exactly len bytes at *)
(* res, the available code bytes first and zeros for the remainder, so no   *)
(* previous guest byte remains in [res, res + len).                         *)
C2_CodeCopyZeroFill ==
    (/\ frames # <<>>
     /\ last.op = "code_copy"
     /\ ~last.err)
        => (ValidCopyArgs /\ ZeroFilled)

(* C3: when a host primitive returns a bridge-level error, the memory of    *)
(* the calling instance is byte for byte what it was on entry.              *)
C3_ErrorLeavesMemory ==
    (frames # <<>> /\ last.err) => Top.mem = last.pre_mem

C3_Witness ==
    /\ frames # <<>>
    /\ last.op = "storage_load"
    /\ last.err
    /\ last.res = MemSize - 2

----------------------------------------------------------------------------
(* Properties of frames and nested calls (Spec) *)

(* C4: a bridge-level failure of any host primitive, the call variants,    *)
(* createContract and getExternalCodeSize included, raises                  *)
(* set_exception_by_hostapi(9): the frame is aborted and calls no later     *)
(* primitive.                                                               *)
C4_FailureRaisesException ==
    (frames # <<>> /\ last.err) => (last.exc /\ Top.pc = "exception9")

ChildFailed(child) == child.pc \in {"exit1", "exit2", "trap", "exception9"}

(* C5: the scalar a call variant returns is 0 when the child frame         *)
(* succeeded and 1 when it failed (reverted, invalid or trapped);           *)
(* createContract returns 1 and writes the zero address when creation fails *)
C5_CallScalar ==
    /\ last.op = "call_return" =>
          /\ last.child.pc = "exit0" => last.scalar = 0
          /\ ChildFailed(last.child) => last.scalar = 1
    /\ (last.op \in {"create", "create_return"} /\ ~last.err /\ ~last.success)
          => /\ last.scalar = 1
             /\ \A i \in 1..ADDR_LEN : Top.mem[last.res + i - 1] = 0

(* C6: within a frame execution_status makes one transition, from running  *)
(* to a terminal value; once terminal no operation changes it, the          *)
(* completion of a nested call included.                                    *)
C6_StatusMonotone ==
    [][(frames # <<>> /\ frames' # <<>> /\ execution_status # "None")
          => execution_status' = execution_status]_vars

(* C7: the caller of a child entered through CALL, CALLCODE or STATICCALL  *)
(* is the parent frame's own address.                                       *)
C7_ChildCallerIsParent ==
    \A i \in 2..Len(frames) :
        frames[i].via \in {"call", "callcode", "staticcall"}
            => frames[i].caller = frames[i - 1].address

MemSlice(mem, offset, length) == [i \in 1..length |-> mem[offset + i - 1]]

(* C8: the child's address and call_value follow the variant: CALL runs at *)
(* the target with the value argument, CALLCODE at the parent's address     *)
(* with the value argument, DELEGATECALL at the parent's address with the   *)
(* parent's call_value and caller, STATICCALL at the target with value 0;   *)
(* the child's call_data is the supplied data in every variant.             *)
C8_ChildDerivation ==
    \A i \in 2..Len(frames) :
        LET c == frames[i]
            p == frames[i - 1]
            target == MemSlice(p.mem, p.pend.addr_offset, ADDR_LEN)
            value == MemSlice(p.mem, p.pend.value_offset, WORD_LEN)
            data == MemSlice(p.mem, p.pend.data_offset, p.pend.data_length)
        IN /\ c.via = "call" => (c.address = target /\ c.call_value = value)
           /\ c.via = "callcode" =>
                 (c.address = p.address /\ c.call_value = value)
           /\ c.via = "delegatecall" =>
                 /\ c.address = p.address
                 /\ c.call_value = p.call_value
                 /\ c.caller = p.caller
           /\ c.via = "staticcall" =>
                 (c.address = target /\ c.call_value = ZeroWord)
           /\ c.via \in Variants => c.call_data = data

C8_Witness ==
    /\ Len(frames) = 2
    /\ frames[2].via = "callcode"
    /\ frames[2].pc = "running"
    /\ frames[2].address = CallerAddress
    /\ frames[2].call_value = ValueWord
    /\ frames[1].pend.addr_offset = 0

InStaticFrame == \E i \in 1..Len(frames) : frames[i].via = "staticcall"

(* C9: while a frame entered through callStatic, or a frame nested in it,  *)
(* is running, the storage mapping is not modified.                         *)
C9_StaticKeepsStorage ==
    [][InStaticFrame => storage' = storage]_vars

(* C10: after a nested call returns, the last-return-data slot holds the   *)
(* child's final return data, and the call is reported successful exactly   *)
(* when the child ended by finish.                                          *)
C10_ReturnPropagation ==
    last.op = "call_return" =>
        /\ return_data = last.child.out
        /\ last.success <=> (last.child.pc = "exit0")

----------------------------------------------------------------------------
(* Frame isolation and shared state *)

(* C11: the output slots of a frame are private to it: while a child frame *)
(* runs and calls finish, revert or invalid, the execution_status and the   *)
(* last-return-data slot seen by its parent do not change; they can change  *)
(* only when the child has ended and the call returns.                      *)
C11_ChildOutputPrivate ==
    [][(Len(frames) >= 2 /\ Len(frames') = Len(frames))
          => (execution_status' = execution_status
              /\ return_data' = return_data)]_vars

Identity(frame) ==
    <<frame.address, frame.caller, frame.call_value, frame.call_data,
      frame.contract_code>>

C13_LoadReturnsLastStore ==
    (last.op = "storage_load" /\ ~last.err) =>
        MemSlice(Top.mem, last.res, WORD_LEN) =
            IF last.key \in DOMAIN writes THEN writes[last.key].value
            ELSE ZeroWord

C13_Witness ==
    /\ last.op = "storage_load"
    /\ ~last.err
    /\ Cardinality(DOMAIN writes) = 2
    /\ last.key \in DOMAIN writes
    /\ MemSlice(Top.mem, last.res, WORD_LEN) # ZeroWord
    /\ \E k \in DOMAIN writes : writes[k].value # writes[last.key].value

----------------------------------------------------------------------------
(* Contract creation *)

(* C15: create_contract with an empty creation code fails: the result is   *)
(* not a success, the zero address is written at the result offset, no      *)
(* child frame is started and the registry is unchanged.                    *)
C15_EmptyCodeCreateFails ==
    [][(/\ ops' = ops - 1
        /\ last'.op = "create"
        /\ ~last'.err
        /\ last'.args # <<>>
        /\ last'.args[1] = 0)
          => /\ ~last'.success
             /\ Len(frames') = Len(frames)
             /\ MemSlice(frames'[Len(frames')].mem, last'.res, ADDR_LEN)
                    = ZeroAddr
             /\ contract_registry' = contract_registry]_vars

C15_Witness ==
    /\ last.op = "create"
    /\ ~last.err
    /\ last.args = <<0, 0>>
    /\ Running
    /\ MemSlice(Top.mem, last.res, ADDR_LEN) = ZeroAddr
    /\ MemSlice(last.pre_mem, last.res, ADDR_LEN) # ZeroAddr

(* C16: create_contract with a non-empty creation code always runs the     *)
(* deploy entry point in a child frame whose address is the new address,    *)
(* whose caller is the creator, whose call_value is the value and whose     *)
(* call_data is the constructor data; the new address is registered and     *)
(* returned with success exactly when that child ended by finish, and       *)
(* otherwise the result is a failure, the zero address is written and the   *)
(* registry gets no entry.                                                  *)
C16_CreateRunsConstructor ==
    [][/\ (ops' = ops - 1 /\ last'.op = "create") => ~last'.success
       /\ \A i \in 2..Len(frames') :
              frames'[i].via = "create" =>
                 LET p == frames'[i - 1] IN
                 /\ frames'[i].entry = "deploy"
                 /\ frames'[i].address = p.pend.new_address
                 /\ frames'[i].caller = p.address
                 /\ frames'[i].call_value
                        = MemSlice(p.mem, V_OFF, WORD_LEN)
       /\ (last'.op = "create_return" /\ Len(frames') < Len(frames)) =>
              LET finished == last'.child.pc = "exit0"
                  written == MemSlice(frames'[Len(frames')].mem, last'.res,
                                      ADDR_LEN)
              IN /\ last'.success <=> finished
                 /\ finished =>
                        /\ written = last'.child.address
                        /\ last'.child.address \in DOMAIN contract_registry'
                 /\ ~finished =>
                        /\ written = ZeroAddr
                        /\ contract_registry' = contract_registry]_vars

----------------------------------------------------------------------------
(* Log events *)

(* C17: emitLogEvent with a topic count below 0 or above 4 returns an      *)
(* error of the parameter category (InvalidParameter on num_topics),        *)
(* whatever the other arguments are, and appends no event.                  *)
C17_TopicCountChecked ==
    [][(/\ ops' = ops - 1
        /\ last'.op = "emit_log_event"
        /\ (last'.args[3] < 0 \/ last'.args[3] > 4))
          => /\ last'.err
             /\ last'.error.kind = "InvalidParameter"
             /\ last'.error.param = "num_topics"
             /\ category(last'.error.kind) = "parameter"
             /\ events' = events]_vars

C17_Witness ==
    /\ last.op = "emit_log_event"
    /\ last.args[3] = 5
    /\ last.args[4] = <<V_OFF, T2_OFF, 0, 0>>
    /\ last.err
    /\ category(last.error.kind) = "parameter"
    /\ Len(events) = 2

(* The topic read for one offset argument: the word at the offset, and the *)
(* zero word for offset 0.                                                  *)
TopicAt(mem, offset) ==
    IF offset = 0 THEN ZeroWord ELSE MemSlice(mem, offset, WORD_LEN)

(* C18: the event list is append-only and ordered by emission: a           *)
(* successful emitLogEvent appends exactly one event at the end, with the   *)
(* address of the emitting frame, exactly nTopics topics in argument order  *)
(* and the data bytes; every other step leaves the list as it is.           *)
C18_EventsAppendOnly ==
    [][IF ops' = ops - 1 /\ last'.op = "emit_log_event" /\ ~last'.err
       THEN LET a == last'.args IN
            events' = Append(events,
                [contract_address |-> Top.address,
                 data |-> MemSlice(Top.mem, a[1], a[2]),
                 topics |-> [i \in 1..a[3] |-> TopicAt(Top.mem, a[4][i])]])
       ELSE events' = events]_vars

C18_Witness ==
    /\ last.op = "emit_log_event"
    /\ ~last.err
    /\ Len(events) = 2
    /\ Len(events[2].topics) = 2
    /\ events[2].topics = <<events[1].topics[2], events[1].topics[1]>>
    /\ events[2].topics[1] # events[2].topics[2]
    /\ events[2].topics[1] = MemSlice(Top.mem, last.args[4][1], WORD_LEN)
    /\ events[2].contract_address = Top.address
    /\ events[2].data = <<101, 102>>

----------------------------------------------------------------------------
(* Ending a frame *)

ValidRange(offset, length) ==
    offset >= 0 /\ length >= 0 /\ offset + length <= MemSize

(* C19: finish(offset, len) with a valid range stores exactly the bytes    *)
(* mem[offset..offset+len] as return_data, sets the status to finished and  *)
(* ends the frame with exit code 0; revert does the same with status        *)
(* reverted and exit code 1; with an invalid range neither return_data nor  *)
(* the status changes and the frame is not ended by an exit.                *)
C19_FinishRevert ==
    [][(Running /\ frames' # frames /\ last'.op \in {"finish", "revert"}) =>
          LET a == last'.args
              after == frames'[Len(frames')]
          IN IF ValidRange(a[1], a[2])
             THEN /\ return_data' = MemSlice(Top.mem, a[1], a[2])
                  /\ execution_status' =
                        IF last'.op = "finish" THEN "SomeTrue" ELSE "SomeFalse"
                  /\ after.pc = IF last'.op = "finish" THEN "exit0" ELSE "exit1"
             ELSE /\ return_data' = return_data
                  /\ execution_status' = execution_status
                  /\ after.pc \notin {"exit0", "exit1", "exit2", "exit3"}]_vars

C19_Witness ==
    /\ last.op = "finish"
    /\ last.args = <<D_OFF, 2>>
    /\ return_data = <<101, 102>>
    /\ execution_status = "SomeTrue"
    /\ Top.pc = "exit0"

(* C20: invalid() ends the frame with exit code 2 in a status of its own,  *)
(* which is not the status revert leaves (Some(false)), and with no         *)
(* return_data: an invocation that ends by invalid reports a failure that   *)
(* is not a revert, with empty return data.                                 *)
C20_InvalidStatus ==
    /\ last.op = "invalid" =>
          /\ Top.pc = "exit2"
          /\ execution_status \notin {"None", "SomeTrue", "SomeFalse"}
    /\ (last.op = "top_return" /\ last.child.pc = "exit2") =>
          /\ ~result.success
          /\ ~result.is_reverted
          /\ result.return_data = <<>>

(* C21: selfDestruct with a valid beneficiary offset ends the frame with   *)
(* exit code 3 and leaves it in status finished (Some(true)).               *)
C21_SelfDestructFinishes ==
    (last.op = "self_destruct" /\ ~last.err) =>
        /\ Top.pc = "exit3"
        /\ execution_status = "SomeTrue"

get_return_data_size(data) == Len(data)

(* C25: every frame starts with an empty return_data: when a child frame    *)
(* created by a call variant or by create_contract is entered,              *)
(* getReturnDataSize answers 0 in it, whatever earlier calls left behind.   *)
C25_ChildStartsWithoutReturnData ==
    (last.op = "enter" /\ Len(frames) >= 2) =>
        get_return_data_size(return_data) = 0

(* C26: when a child frame of a call ends by an engine trap or a bridge     *)
(* exception, the call returns to the parent as an ordinary failure: the    *)
(* result has success = false and no return data, the return_data slot is   *)
(* empty, and the parent frame goes on running.                             *)
C26_TrapIsOrdinaryFailure ==
    [][(/\ Len(frames) >= 2
        /\ Top.entry = "call"
        /\ Top.pc \in {"trap", "exception9"}
        /\ Len(frames') = Len(frames) - 1)
          => /\ last'.op = "call_return"
             /\ ~last'.success
             /\ return_data' = <<>>
             /\ get_return_data_size(return_data') = 0
             /\ Top'.pc = "running"
             /\ Top'.pend = NoPend]_vars

C26_Witness ==
    /\ last.op = "call_return"
    /\ last.child.pc = "trap"
    /\ last.source # <<>>
    /\ ~last.success
    /\ return_data = <<>>
    /\ Running

(* C28: each contract has its own storage: a storage_store to key k by a    *)
(* frame at address A does not change what storage_load of k returns in a   *)
(* frame at another address B, such as the caller of a CALL child.          *)
C28_StoragePerContract ==
    [][(last'.op = "storage_store" /\ ~last'.err) =>
          \A i \in 1..Len(frames) :
              frames[i].address # Top.address =>
                  host_storage_load(storage', last'.key)
                      = host_storage_load(storage, last'.key)]_vars

(* C29: the result of a top-level invocation depends on that invocation     *)
(* only: when the entry point returns at once, without finish or revert,    *)
(* call_contract_function reports no revert and no return data, whatever    *)
(* earlier invocations on the same context reverted or returned.            *)
C29_ResultOfCurrentRun ==
    [][(last.op = "invoke" /\ last'.op = "return") =>
          LET exec == call_contract_function(Top'.pc, return_data',
                                             execution_status')
          IN ~exec.is_reverted /\ exec.return_data = <<>>]_vars

(* C30: create_contract returns a ContractCreateResult for every input:     *)
(* for a non-empty creation code of any length, 1 to 3 bytes included, with *)
(* non-empty constructor data, it answers success or failure and never      *)
(* aborts the host with a panic.                                            *)
C30_CreateNeverPanics ==
    /\ result.state # "aborted"
    /\ last.op # "abort"

-----------------------------------------------------------------------------
(* Properties of metered execution (SpecGas) *)

C23_StraightLineGas ==
    (meter.status = "returned" /\ StraightLine(meter.code)) =>
        /\ meter.stack = RunOriginal(meter.code, AddArgs, 1, <<>>)
        /\ meter.left
             = meter.budget - TotalCost(meter.rules, meter.code, 1)
        /\ (meter.code = AddBody /\ meter.rules = DefaultRules) =>
               (meter.stack = <<8>> /\ meter.budget - meter.left = 3)
        /\ (meter.code = TestBody /\ meter.rules = TestRules) =>
               (meter.stack = <<>> /\ meter.budget - meter.left = 20)
        /\ (meter.code = CustomBody /\ meter.rules = MyRules) =>
               (meter.stack = <<>> /\ meter.budget - meter.left = 9)

C23_Witness ==
    /\ meter.status = "returned"
    /\ meter.code = CustomBody
    /\ meter.rules = MyRules
    /\ meter.left = meter.budget - 9

-----------------------------------------------------------------------------
(* Properties of the modular arithmetic (SpecMath) *)

(* <<value of the big-endian bytes lo..hi modulo m, 256^(hi - lo + 1)       *)
(* modulo m>>                                                               *)
RECURSIVE ResidueRange(_, _, _, _)
ResidueRange(word, lo, hi, m) ==
    IF lo = hi THEN <<word[lo] % m, 256 % m>>
    ELSE LET h == ResidueRange(word, lo, (lo + hi) \div 2, m)
             l == ResidueRange(word, (lo + hi) \div 2 + 1, hi, m)
         IN <<(h[1] * l[2] + l[1]) % m, (h[2] * l[2]) % m>>

(* the value of a big-endian word modulo m *)
Residue(word, m) == ResidueRange(word, 1, Len(word), m)[1]

(* C27: addmod, mulmod and expmod return 0 for the modulus 0; expmod        *)
(* returns 0 for the modulus 1; for a modulus above 1 expmod(b, 0, n) is 1  *)
(* for every b and expmod(0, e, n) is 0 for e > 0; addmod and mulmod reduce *)
(* the exact sum and product, without wrap-around at 2^256:                 *)
(* addmod(2^256 - 1, 100, 7) = 3.                                           *)
C27_ModularArithmetic ==
    last.op \in {"addmod", "mulmod", "expmod"} =>
        LET a == last.args[1]
            b == last.args[2]
            n == last.args[3]
            m == n[WORD_LEN]
        IN /\ n = ZeroWord => last.value = ZeroWord
           /\ (last.op = "expmod" /\ n = WordOf(1)) => last.value = ZeroWord
           /\ (last.op = "expmod" /\ n \notin {ZeroWord, WordOf(1)}) =>
                 /\ b = ZeroWord => last.value = WordOf(1)
                 /\ (a = ZeroWord /\ b # ZeroWord) => last.value = ZeroWord
           /\ (last.op = "addmod" /\ n # ZeroWord) =>
                 last.value
                   = WordOf((Residue(a, m) + Residue(b, m)) % m)
           /\ (last.op = "mulmod" /\ n # ZeroWord) =>
                 last.value
                   = WordOf((Residue(a, m) * Residue(b, m)) % m)
           /\ (last.op = "addmod" /\ a = MaxWord /\ b = WordOf(100)
                 /\ n = WordOf(7)) => last.value = WordOf(3)

C27_Witness ==
    /\ last.op = "addmod"
    /\ last.args = <<MaxWord, WordOf(100), WordOf(7)>>
    /\ last.value = WordOf(3)

====
